---------------------------- MODULE Spec2Model ----------------------------
(***************************************************************************)
(* A model of mutest (src/mutest.go): the candidate scan (File.Visit,      *)
(* addSides), the mutation operator (SimpleMutator.Mutate / Unmutate), one *)
(* trial (runTest) and a whole run (doWork).                               *)
(*                                                                         *)
(* The syntax tree is a heap: a sequence of node records addressed by      *)
(* their index, as the Go tree is a graph of pointers.  0 is the nil       *)
(* pointer.  File contents and harness output are sequences of tokens and  *)
(* of characters.                                                          *)
(***************************************************************************)
EXTENDS Integers, Sequences, FiniteSets, TLC

VARIABLES
    pc,          \* the position of the process in doWork / runTest
    runs,        \* the number of calls of doWork made by this process
    content,     \* doWork: the code file as read (its parsed form as a term)
    nodes,       \* the heap of ast nodes of parsedFile
    astFile,     \* file.astFile: the root of the parsed tree
    nodeArray,   \* the package-level candidate list
    output,      \* doWork: the report built so far
    i,           \* doWork: the index of the range loop
    beforeOp,    \* runTest: the first result of mutator.Mutate
    afterOp,     \* runTest: the second result of mutator.Mutate
    cmdErr,      \* runTest: err of cmd.CombinedOutput
    cmdOutput,   \* runTest: output of cmd.CombinedOutput
    verdict,     \* runTest: the message the classification printed
    dirExists,   \* the disk: whether ../generated_mutest exists
    dirFiles,    \* the disk: the files of ../generated_mutest, name -> content
    cwd,         \* the process's working directory
    panicValue   \* the value the process panicked with

vars == <<pc, runs, content, nodes, astFile, nodeArray, output, i,
          beforeOp, afterOp, cmdErr, cmdOutput, verdict, dirExists, dirFiles,
          cwd, panicValue>>

---------------------------------------------------------------------------
(* Bounds of the model.                                                    *)

\* doWork is called at most MaxRuns times by one process.
MaxRuns == 2
\* A captured harness output has at most MaxLines lines.
MaxLines == 3

---------------------------------------------------------------------------
(* Tokens (go/token).                                                      *)

ILLEGAL == "ILLEGAL"
LAND == "&&"
LOR == "||"
EQL == "=="
NEQ == "!="
GEQ == ">="
LEQ == "<="
GTR == ">"
LSS == "<"
ADD == "+"
AND == "&"
NOT == "!"
SUB == "-"

---------------------------------------------------------------------------
(* The syntax tree (go/ast), as the parser builds it.                      *)

\* An ast node: kind is its Go type, op its Op (or an identifier's name),
\* X and Y its expression or statement children, kids its list children.
\*   BinaryExpr: X op Y            UnaryExpr: op X         ParenExpr: (X)
\*   CallExpr:   X(kids...)        ForStmt: Cond X, Body kids
\*   IfStmt: Cond X, Body kids, Else Y
\*   AssignStmt: X = Y             ReturnStmt: return X    ExprStmt: X
\*   File: the statements of its function, kids
Node(kind, op, x, y, kids) ==
    [kind |-> kind, op |-> op, X |-> x, Y |-> y, kids |-> kids]

\* Source terms: what the parser reads.
Nil == <<"Nil">>
Ident(name) == <<"Ident", name>>
Bin(op, x, y) == <<"BinaryExpr", op, x, y>>
Un(op, x) == <<"UnaryExpr", op, x>>
Paren(x) == <<"ParenExpr", x>>
Call(f, args) == <<"CallExpr", f, args>>
For(cond, body) == <<"ForStmt", cond, body>>
If(cond, body, els) == <<"IfStmt", cond, body, els>>
Assign(lhs, rhs) == <<"AssignStmt", lhs, rhs>>
Return(x) == <<"ReturnStmt", x>>
ExprStmt(x) == <<"ExprStmt", x>>
SrcFile(stmts) == <<"File", stmts>>

RECURSIVE ParseNode(_, _)
RECURSIVE ParseList(_, _)

\* parser.ParseFile on one term: the heap h extended by the term's nodes,
\* and the new node's address (children are allocated before their parent).
ParseNode(e, h) ==
    LET Alloc(hh, n) == [h |-> Append(hh, n), id |-> Len(hh) + 1] IN
    CASE e[1] = "Nil" -> [h |-> h, id |-> 0]
      [] e[1] = "Ident" -> Alloc(h, Node("Ident", e[2], 0, 0, <<>>))
      [] e[1] = "BinaryExpr" ->
            LET l == ParseNode(e[3], h)
                r == ParseNode(e[4], l.h)
            IN  Alloc(r.h, Node("BinaryExpr", e[2], l.id, r.id, <<>>))
      [] e[1] = "UnaryExpr" ->
            LET x == ParseNode(e[3], h)
            IN  Alloc(x.h, Node("UnaryExpr", e[2], x.id, 0, <<>>))
      [] e[1] = "ParenExpr" ->
            LET x == ParseNode(e[2], h)
            IN  Alloc(x.h, Node("ParenExpr", ILLEGAL, x.id, 0, <<>>))
      [] e[1] = "CallExpr" ->
            LET f == ParseNode(e[2], h)
                a == ParseList(e[3], f.h)
            IN  Alloc(a.h, Node("CallExpr", ILLEGAL, f.id, 0, a.ids))
      [] e[1] = "ForStmt" ->
            LET c == ParseNode(e[2], h)
                b == ParseList(e[3], c.h)
            IN  Alloc(b.h, Node("ForStmt", ILLEGAL, c.id, 0, b.ids))
      [] e[1] = "IfStmt" ->
            LET c == ParseNode(e[2], h)
                b == ParseList(e[3], c.h)
                s == ParseNode(e[4], b.h)
            IN  Alloc(s.h, Node("IfStmt", ILLEGAL, c.id, s.id, b.ids))
      [] e[1] = "AssignStmt" ->
            LET l == ParseNode(e[2], h)
                r == ParseNode(e[3], l.h)
            IN  Alloc(r.h, Node("AssignStmt", ILLEGAL, l.id, r.id, <<>>))
      [] e[1] = "ReturnStmt" ->
            LET x == ParseNode(e[2], h)
            IN  Alloc(x.h, Node("ReturnStmt", ILLEGAL, x.id, 0, <<>>))
      [] e[1] = "ExprStmt" ->
            LET x == ParseNode(e[2], h)
            IN  Alloc(x.h, Node("ExprStmt", ILLEGAL, x.id, 0, <<>>))
      [] e[1] = "File" ->
            LET b == ParseList(e[2], h)
            IN  Alloc(b.h, Node("File", ILLEGAL, 0, 0, b.ids))

ParseList(es, h) ==
    IF es = <<>> THEN [h |-> h, ids |-> <<>>]
    ELSE LET first == ParseNode(Head(es), h)
             rest == ParseList(Tail(es), first.h)
         IN  [h |-> rest.h, ids |-> <<first.id>> \o rest.ids]

\* parser.ParseFile(fset, name, content, 0): the heap and the root.
ParseFile(src) == ParseNode(src, <<>>)

\* token.Token.Precedence, and token.UnaryPrec.
Precedence(op) ==
    CASE op = LOR -> 1
      [] op = LAND -> 2
      [] op \in {EQL, NEQ, LSS, LEQ, GTR, GEQ} -> 3
      [] op \in {ADD, SUB} -> 4
      [] op = AND -> 5
      [] OTHER -> 0
UnaryPrec == 6

RECURSIVE FprintPrec(_, _, _)
RECURSIVE FprintList(_, _)

\* The printer on the tree under node n of heap h, in a context of
\* precedence prec1: the text, as tokens.  A binary expression of lower
\* precedence than its context is printed in parentheses.
FprintPrec(h, n, prec1) ==
    IF n = 0 THEN <<>>
    ELSE LET nd == h[n] IN
    CASE nd.kind = "Ident" -> <<nd.op>>
      [] nd.kind = "BinaryExpr" ->
            LET prec == Precedence(nd.op)
                text == FprintPrec(h, nd.X, prec) \o <<nd.op>>
                            \o FprintPrec(h, nd.Y, prec + 1)
            IN  IF prec < prec1 THEN <<"(">> \o text \o <<")">> ELSE text
      [] nd.kind = "UnaryExpr" -> <<nd.op>> \o FprintPrec(h, nd.X, UnaryPrec)
      [] nd.kind = "ParenExpr" -> <<"(">> \o FprintPrec(h, nd.X, 0) \o <<")">>
      [] nd.kind = "CallExpr" ->
            FprintPrec(h, nd.X, 0) \o <<"(">> \o FprintList(h, nd.kids)
                \o <<")">>
      [] nd.kind = "ForStmt" ->
            <<"for">> \o FprintPrec(h, nd.X, 0) \o <<"{">>
                \o FprintList(h, nd.kids) \o <<"}">>
      [] nd.kind = "IfStmt" ->
            <<"if">> \o FprintPrec(h, nd.X, 0) \o <<"{">>
                \o FprintList(h, nd.kids) \o <<"}">>
                \o (IF nd.Y = 0 THEN <<>>
                    ELSE <<"else">> \o FprintPrec(h, nd.Y, 0))
      [] nd.kind = "AssignStmt" ->
            FprintPrec(h, nd.X, 0) \o <<"=">> \o FprintPrec(h, nd.Y, 0)
      [] nd.kind = "ReturnStmt" -> <<"return">> \o FprintPrec(h, nd.X, 0)
      [] nd.kind = "ExprStmt" -> FprintPrec(h, nd.X, 0)
      [] nd.kind = "File" ->
            <<"func", "{">> \o FprintList(h, nd.kids) \o <<"}">>

FprintList(h, ids) ==
    IF ids = <<>> THEN <<>>
    ELSE FprintPrec(h, Head(ids), 0) \o <<";">> \o FprintList(h, Tail(ids))

\* printer.Fprint(genFile, fset, file): the text written for the tree.
Fprint(h, n) == FprintPrec(h, n, 0)

---------------------------------------------------------------------------
(* The mutation operator (SimpleMutator).                                  *)

\* SwapOp with the partners of >= and <= exchanged.
SwapOpCrossed(op) ==
    CASE op = LAND -> LOR
      [] op = LOR -> LAND
      [] op = EQL -> NEQ
      [] op = NEQ -> EQL
      [] op = GEQ -> GTR
      [] op = LEQ -> LSS
      [] op = GTR -> LEQ
      [] op = LSS -> GEQ
      [] OTHER -> "default"

\* The inner switch of Mutate: the operator n.Op is set to, or "default"
\* for an operator of no case.
SwapOp(op) ==
    CASE op = LAND -> LOR
      [] op = LOR -> LAND
      [] op = EQL -> NEQ
      [] op = NEQ -> EQL
      [] op = GEQ -> LSS
      [] op = LEQ -> GTR
      [] op = GTR -> LEQ
      [] op = LSS -> GEQ
      [] OTHER -> "default"

\* Mutate with the unary case done in place: the operator of the node itself
\* is set to ! and returned as the new token.
MutateUnaryInPlace(h, n) ==
    LET nd == h[n] IN
    CASE nd.kind = "BinaryExpr" ->
            IF SwapOp(nd.op) = "default"
            THEN [h |-> h, beforeOp |-> nd.op, afterOp |-> ILLEGAL,
                  panicked |-> TRUE]
            ELSE [h |-> [h EXCEPT ![n].op = SwapOp(nd.op)],
                  beforeOp |-> nd.op, afterOp |-> SwapOp(nd.op),
                  panicked |-> FALSE]
      [] nd.kind = "UnaryExpr" ->
            [h |-> [h EXCEPT ![n].op = NOT],
             beforeOp |-> nd.op, afterOp |-> NOT, panicked |-> FALSE]
      [] OTHER ->
            [h |-> h, beforeOp |-> ILLEGAL, afterOp |-> ILLEGAL,
             panicked |-> FALSE]

\* Mutate(node) on heap h: the heap after it, the two tokens it returns, and
\* whether it panicked (with n.Op).  Mutating a UnaryExpr allocates a node.
Mutate(h, n) ==
    LET nd == h[n] IN
    CASE nd.kind = "BinaryExpr" ->
            IF SwapOp(nd.op) = "default"
            THEN [h |-> h, beforeOp |-> nd.op, afterOp |-> ILLEGAL,
                  panicked |-> TRUE]
            ELSE [h |-> [h EXCEPT ![n].op = SwapOp(nd.op)],
                  beforeOp |-> nd.op, afterOp |-> SwapOp(nd.op),
                  panicked |-> FALSE]
      [] nd.kind = "UnaryExpr" ->
            [h |-> Append([h EXCEPT ![n].X = Len(h) + 1],
                          Node("UnaryExpr", NOT, nd.X, 0, <<>>)),
             beforeOp |-> nd.op, afterOp |-> nd.op, panicked |-> FALSE]
      [] OTHER ->
            [h |-> h, beforeOp |-> ILLEGAL, afterOp |-> ILLEGAL,
             panicked |-> FALSE]

\* Unmutate(node): a second call of Mutate.
Unmutate(h, n) == Mutate(h, n)

---------------------------------------------------------------------------
(* The candidate scan (addSides, File.Visit, ast.Walk).                    *)

RECURSIVE addSidesAnyOp(_, _, _)

\* addSides without the test of the operator: it descends into the operands
\* of every binary expression.
addSidesAnyOp(h, n, arr) ==
    LET nd == h[n] IN
    CASE nd.kind = "BinaryExpr" ->
            Append(addSidesAnyOp(h, nd.Y, addSidesAnyOp(h, nd.X, arr)), n)
      [] nd.kind = "UnaryExpr" -> Append(arr, n)
      [] OTHER -> arr

RECURSIVE addSides(_, _, _)

\* addSides(node): nodeArray arr after the call.
addSides(h, n, arr) ==
    LET nd == h[n] IN
    CASE nd.kind = "BinaryExpr" ->
            Append(IF nd.op = LAND \/ nd.op = LOR
                   THEN addSides(h, nd.Y, addSides(h, nd.X, arr))
                   ELSE arr,
                   n)
      [] nd.kind = "UnaryExpr" -> Append(arr, n)
      [] OTHER -> arr

\* The ForStmt case of Visit, on the statement's Cond c (0: no condition).
VisitFor(h, c, arr) ==
    IF c = 0 THEN arr
    ELSE CASE h[c].kind = "BinaryExpr" ->
                 IF h[c].op = LAND \/ h[c].op = LOR
                 THEN addSides(h, c, arr)
                 ELSE Append(arr, c)
           [] h[c].kind = "UnaryExpr" -> Append(arr, c)
           [] OTHER -> arr

\* The IfStmt case of Visit without the test of the unary operator.
VisitIfAnyUnary(h, c, arr) ==
    IF c = 0 THEN arr
    ELSE CASE h[c].kind = "BinaryExpr" ->
                 Append(IF h[c].op = LAND \/ h[c].op = LOR
                        THEN addSides(h, c, arr)
                        ELSE arr,
                        c)
           [] h[c].kind = "UnaryExpr" -> Append(arr, c)
           [] OTHER -> arr

\* The IfStmt case of Visit, on the statement's Cond c.
VisitIf(h, c, arr) ==
    IF c = 0 THEN arr
    ELSE CASE h[c].kind = "BinaryExpr" ->
                 Append(IF h[c].op = LAND \/ h[c].op = LOR
                        THEN addSides(h, c, arr)
                        ELSE arr,
                        c)
           [] h[c].kind = "UnaryExpr" ->
                 IF h[c].op = NOT THEN Append(arr, c) ELSE arr
           [] OTHER -> arr

\* f.Visit(node): nodeArray arr after the call.
Visit(h, n, arr) ==
    CASE h[n].kind = "ForStmt" -> VisitFor(h, h[n].X, arr)
      [] h[n].kind = "IfStmt" -> VisitIf(h, h[n].X, arr)
      [] OTHER -> arr

\* The children ast.Walk descends into, in its order.
Children(nd) ==
    (IF nd.X = 0 THEN <<>> ELSE <<nd.X>>) \o nd.kids
        \o (IF nd.Y = 0 THEN <<>> ELSE <<nd.Y>>)

RECURSIVE Walk(_, _, _)
RECURSIVE WalkList(_, _, _)

\* ast.Walk(file, node): Visit on the node, then the walk of its children.
Walk(h, n, arr) == WalkList(h, Children(h[n]), Visit(h, n, arr))

WalkList(h, ids, arr) ==
    IF ids = <<>> THEN arr
    ELSE WalkList(h, Tail(ids), Walk(h, Head(ids), arr))

---------------------------------------------------------------------------
(* The classification of a harness result (runTest).                       *)

NL == "\n"
FAIL == <<"F", "A", "I", "L">>

RECURSIVE Split(_, _)

\* bytes.Split(s, sep) for a separator of one byte.
Split(s, sep) ==
    IF \A k \in 1..Len(s) : s[k] # sep THEN <<s>>
    ELSE LET k == CHOOSE j \in 1..Len(s) :
                      s[j] = sep /\ \A m \in 1..(j - 1) : s[m] # sep
         IN  <<SubSeq(s, 1, k - 1)>> \o Split(SubSeq(s, k + 1, Len(s)), sep)

\* bytes.HasPrefix(s, prefix).
HasPrefix(s, prefix) ==
    Len(s) >= Len(prefix) /\ SubSeq(s, 1, Len(prefix)) = prefix

\* The if-chain on err after cmd.CombinedOutput: the message printed
\* ("Survived": did not cause a failure; "Killed": failed as expected;
\* "Errored": resulted in an error; "None": nothing is printed), or the
\* panic of lines[len(lines) - 2] on fewer than two lines.
Classify(err, out) ==
    IF err = "nil" THEN [verdict |-> "Survived", panicked |-> FALSE]
    ELSE IF err = "ExitError"
    THEN LET lines == Split(out, NL) IN
         IF Len(lines) - 2 < 0
         THEN [verdict |-> "None", panicked |-> TRUE]
         ELSE IF ~HasPrefix(lines[Len(lines) - 1], FAIL)
              THEN [verdict |-> "Errored", panicked |-> FALSE]
              ELSE [verdict |-> "Killed", panicked |-> FALSE]
    ELSE [verdict |-> "None", panicked |-> FALSE]

---------------------------------------------------------------------------
(* The inputs: code files, harness results, and the disk at start.         *)

idX == Ident("x")
idY == Ident("y")
\* Three comparisons, and the condition  a && b || c  made of them.
cmpA == Bin(LSS, idX, idY)
cmpB == Bin(EQL, idX, idY)
cmpC == Bin(GEQ, idX, idY)
Fixture == Bin(LOR, Bin(LAND, cmpA, cmpB), cmpC)

\* Conditions of one operator over identifiers.
SimpleConds ==
    {Bin(op, idX, idY) : op \in {LAND, LOR, EQL, NEQ, GEQ, LEQ, GTR, LSS, ADD, AND}}
        \cup {Un(NOT, idX), Un(SUB, idX), idX, Call(idX, <<idY>>)}

\* Compound conditions.
CompoundConds ==
    { Fixture,
      Bin(LAND, cmpA, cmpB),
      Bin(LOR, Un(NOT, idX), cmpA),
      Bin(LAND, Un(SUB, idX), Bin(ADD, idX, idY)),
      Bin(LSS, Bin(ADD, idX, idY), idX),
      Bin(LAND, cmpA, Bin(LSS, Bin(ADD, idX, idY), Un(SUB, idX))),
      Bin(EQL, Paren(Bin(LAND, idX, idY)), Un(NOT, idX)),
      Un(NOT, Paren(cmpA)),
      Paren(cmpA),
      Bin(LAND, Paren(Bin(LOR, cmpA, cmpB)), cmpC),
      Call(idX, <<cmpA, Un(NOT, idY)>>) }

Conds == SimpleConds \cup CompoundConds

\* Code files of one statement, and files of several, nested, statements
\* with expressions outside conditions.
Sources ==
    {SrcFile(<<For(c, <<>>)>>) : c \in Conds \cup {Nil}}
        \cup {SrcFile(<<If(c, <<>>, Nil)>>) : c \in Conds}
        \cup { SrcFile(<<>>),
               SrcFile(<<Assign(idX, cmpA), Return(Un(NOT, idX))>>),
               SrcFile(<<Assign(idX, cmpA),
                         If(cmpB, <<Return(cmpC)>>, Nil),
                         For(cmpC, <<ExprStmt(Call(idX, <<cmpB>>))>>)>>),
               SrcFile(<<For(cmpA, <<If(Un(NOT, idX), <<>>,
                                        If(cmpB, <<>>, Nil))>>)>>),
               SrcFile(<<If(Bin(LAND, cmpA, cmpB),
                            <<For(Un(SUB, idX), <<>>)>>, Nil)>>) }

\* Code files of at most one candidate, for runs over every output text.
ClassifySources ==
    {SrcFile(<<For(c, <<>>)>>) : c \in {cmpA, Bin(ADD, idX, idY), Un(NOT, idX), Nil}}

\* The last components of codeFilePath and testFilePath, and the bytes of
\* the test file.
CodeFilename == "a.go"
TestFilename == "a_test.go"
Dat == <<"test">>

RECURSIVE Join(_)
\* The lines of a text, joined by line breaks.
Join(lines) ==
    IF Len(lines) = 1 THEN lines[1]
    ELSE lines[1] \o <<NL>> \o Join(Tail(lines))

Lines == {<<>>, FAIL, <<"o", "k">>, <<"F", "A">>, FAIL \o <<":", "x">>}

\* Every text of 1..MaxLines lines (a last empty line: a final line break).
Texts ==
    UNION {{Join(ls) : ls \in [1..n -> Lines]} : n \in 1..MaxLines}

\* What cmd.CombinedOutput can return: no error, an *exec.ExitError, or
\* another error (the command did not start).
Result(err, out) == [err |-> err, out |-> out]
AllResults ==
    {Result(e, t) : e \in {"nil", "ExitError"}, t \in Texts}
        \cup {Result("StartError", <<>>)}
RunResults ==
    { Result("nil", Join(<<<<"o", "k">>, <<>>>>)),
      Result("ExitError", Join(<<FAIL, <<>>>>)),
      Result("ExitError", Join(<<<<"F", "A">>, <<>>>>)),
      Result("ExitError", <<>>),
      Result("StartError", <<>>) }

\* The files of a directory: a function from names to contents.
NoFiles == [n \in {} |-> <<>>]
WriteFile(files, name, data) ==
    [n \in DOMAIN files \cup {name} |-> IF n = name THEN data ELSE files[n]]
\* A removal that leaves the file in place.
RemoveFileKeep(files, name) == files
RemoveFile(files, name) == [n \in DOMAIN files \ {name} |-> files[n]]

\* The disk when the process starts: no workspace directory, or the one an
\* aborted earlier run left.
InitialDisks ==
    { [exists |-> FALSE, files |-> NoFiles],
      [exists |-> TRUE,
       files |-> WriteFile(WriteFile(NoFiles, "old.go", <<"stale">>),
                           TestFilename, Dat)] }

---------------------------------------------------------------------------
(* The process: doWork and, inlined in its loop, runTest.                  *)

Init ==
    /\ pc = "idle"
    /\ runs = 0
    /\ content = Nil
    /\ nodes = <<>>
    /\ astFile = 0
    /\ nodeArray = <<>>
    /\ output = <<>>
    /\ i = 0
    /\ beforeOp = ILLEGAL
    /\ afterOp = ILLEGAL
    /\ cmdErr = "NotRun"
    /\ cmdOutput = <<>>
    /\ verdict = "None"
    /\ \E d \in InitialDisks : dirExists = d.exists /\ dirFiles = d.files
    /\ cwd = "start"
    /\ panicValue = ""

\* check(e) on a non-nil error, and any other panic: the process stops.
Panic(value) ==
    /\ pc' = "panicked"
    /\ panicValue' = value

\* doWork, to the parsed file: the test file and the code file are read and
\* the code file is parsed; each of the three may fail.
DoWorkRead(sources) ==
    /\ pc = "idle"
    /\ runs < MaxRuns
    /\ runs' = runs + 1
    /\ \/ /\ \E fault \in {"test file unreadable", "code file unreadable",
                           "parse error"} : Panic(fault)
          /\ UNCHANGED <<content, nodes, astFile>>
       \/ \E src \in sources :
            /\ content' = src
            /\ nodes' = ParseFile(src).h
            /\ astFile' = ParseFile(src).id
            /\ pc' = "walk"
            /\ UNCHANGED panicValue
    /\ UNCHANGED <<nodeArray, output, i, beforeOp, afterOp, cmdErr, cmdOutput,
                   verdict, dirExists, dirFiles, cwd>>

\* The scan with the walk done two times over.
DoWorkWalkTwice ==
    /\ pc = "walk"
    /\ nodeArray' = Walk(nodes, astFile, Walk(nodes, astFile, nodeArray))
    /\ pc' = "mkdir"
    /\ UNCHANGED <<runs, content, nodes, astFile, output, i, beforeOp, afterOp,
                   cmdErr, cmdOutput, verdict, dirExists, dirFiles, cwd,
                   panicValue>>

\* ast.Walk(file, file.astFile).
DoWorkWalk ==
    /\ pc = "walk"
    /\ nodeArray' = Walk(nodes, astFile, nodeArray)
    /\ pc' = "mkdir"
    /\ UNCHANGED <<runs, content, nodes, astFile, output, i, beforeOp, afterOp,
                   cmdErr, cmdOutput, verdict, dirExists, dirFiles, cwd,
                   panicValue>>

\* os.Getwd, checked, and os.Mkdir(genPath), whose error is dropped: the
\* directory may be there already, or may not be made.
DoWorkMkdir ==
    /\ pc = "mkdir"
    /\ \/ /\ Panic("getwd")
          /\ UNCHANGED dirExists
       \/ /\ dirExists' \in (IF dirExists THEN {TRUE} ELSE BOOLEAN)
          /\ pc' = "copytest"
          /\ UNCHANGED panicValue
    /\ UNCHANGED <<runs, content, nodes, astFile, nodeArray, output, i,
                   beforeOp, afterOp, cmdErr, cmdOutput, verdict, dirFiles,
                   cwd>>

\* The copy of the test file with os.Create's error not checked.
DoWorkCopyTestUnchecked ==
    /\ pc = "copytest"
    /\ \/ /\ Panic("create test file")
          /\ UNCHANGED dirFiles
       \/ /\ dirFiles' = IF dirExists
                         THEN WriteFile(dirFiles, TestFilename, Dat)
                         ELSE dirFiles
          /\ pc' = "chdir"
          /\ UNCHANGED panicValue
    /\ UNCHANGED <<runs, content, nodes, astFile, nodeArray, output, i,
                   beforeOp, afterOp, cmdErr, cmdOutput, verdict, dirExists,
                   cwd>>

\* The test file is copied into the directory: os.Create, ioutil.WriteFile.
DoWorkCopyTest ==
    /\ pc = "copytest"
    /\ \/ /\ Panic("create test file")
          /\ UNCHANGED dirFiles
       \/ /\ dirExists
          /\ dirFiles' = WriteFile(dirFiles, TestFilename, Dat)
          /\ pc' = "chdir"
          /\ UNCHANGED panicValue
    /\ UNCHANGED <<runs, content, nodes, astFile, nodeArray, output, i,
                   beforeOp, afterOp, cmdErr, cmdOutput, verdict, dirExists,
                   cwd>>

\* The head of the loop as a loop that tests its bound after the body.
DoWorkChdirLoopOnce ==
    /\ pc = "chdir"
    /\ \/ /\ Panic("chdir")
          /\ UNCHANGED <<cwd, output, i>>
       \/ /\ cwd' = "gen"
          /\ output' = <<>>
          /\ i' = 1
          /\ pc' = "mutate"
          /\ UNCHANGED panicValue
    /\ UNCHANGED <<runs, content, nodes, astFile, nodeArray, beforeOp, afterOp,
                   cmdErr, cmdOutput, verdict, dirExists, dirFiles>>

\* os.Chdir(genPath), the empty report, and the head of the range loop.
DoWorkChdir ==
    /\ pc = "chdir"
    /\ \/ /\ Panic("chdir")
          /\ UNCHANGED <<cwd, output, i>>
       \/ /\ cwd' = "gen"
          /\ output' = <<>>
          /\ i' = 1
          /\ pc' = IF nodeArray = <<>> THEN "chdirback" ELSE "mutate"
          /\ UNCHANGED panicValue
    /\ UNCHANGED <<runs, content, nodes, astFile, nodeArray, beforeOp, afterOp,
                   cmdErr, cmdOutput, verdict, dirExists, dirFiles>>

\* runTest: beforeOp, afterOp := mutator.Mutate(node).
RunTestMutate ==
    /\ pc = "mutate"
    /\ LET m == Mutate(nodes, nodeArray[i]) IN
       IF m.panicked
       THEN /\ Panic(m.beforeOp)
            /\ UNCHANGED <<nodes, beforeOp, afterOp>>
       ELSE /\ nodes' = m.h
            /\ beforeOp' = m.beforeOp
            /\ afterOp' = m.afterOp
            /\ pc' = "create"
            /\ UNCHANGED panicValue
    /\ UNCHANGED <<runs, content, astFile, nodeArray, output, i, cmdErr,
                   cmdOutput, verdict, dirExists, dirFiles, cwd>>

\* runTest: os.Create(filename), checked.
RunTestCreate ==
    /\ pc = "create"
    /\ \/ /\ Panic("create code file")
          /\ UNCHANGED dirFiles
       \/ /\ dirFiles' = WriteFile(dirFiles, CodeFilename, <<>>)
          /\ pc' = "fprint"
          /\ UNCHANGED panicValue
    /\ UNCHANGED <<runs, content, nodes, astFile, nodeArray, output, i,
                   beforeOp, afterOp, cmdErr, cmdOutput, verdict, dirExists,
                   cwd>>

\* runTest: printer.Fprint(genFile, fset, file); genFile.Sync().
RunTestFprint ==
    /\ pc = "fprint"
    /\ dirFiles' = WriteFile(dirFiles, CodeFilename, Fprint(nodes, astFile))
    /\ pc' = "exec"
    /\ UNCHANGED <<runs, content, nodes, astFile, nodeArray, output, i,
                   beforeOp, afterOp, cmdErr, cmdOutput, verdict, dirExists,
                   cwd, panicValue>>

\* runTest: go test is run and its result classified.
RunTestExec(results) ==
    /\ pc = "exec"
    /\ \E r \in results :
         /\ cmdErr' = r.err
         /\ cmdOutput' = r.out
         /\ LET c == Classify(r.err, r.out) IN
            IF c.panicked
            THEN /\ Panic("index out of range")
                 /\ UNCHANGED verdict
            ELSE /\ verdict' = c.verdict
                 /\ pc' = "unmutate"
                 /\ UNCHANGED panicValue
    /\ UNCHANGED <<runs, content, nodes, astFile, nodeArray, output, i,
                   beforeOp, afterOp, dirExists, dirFiles, cwd>>

\* runTest: mutator.Unmutate(node).
RunTestUnmutate ==
    /\ pc = "unmutate"
    /\ LET m == Unmutate(nodes, nodeArray[i]) IN
       IF m.panicked
       THEN /\ Panic(m.beforeOp)
            /\ UNCHANGED nodes
       ELSE /\ nodes' = m.h
            /\ pc' = "remove"
            /\ UNCHANGED panicValue
    /\ UNCHANGED <<runs, content, astFile, nodeArray, output, i, beforeOp,
                   afterOp, cmdErr, cmdOutput, verdict, dirExists, dirFiles,
                   cwd>>

\* The end of runTest with a report that leaves out empty outputs.
RunTestRemoveSkipEmpty ==
    /\ pc = "remove"
    /\ \/ /\ Panic("remove code file")
          /\ UNCHANGED <<dirFiles, output, i, beforeOp, afterOp, cmdErr,
                         cmdOutput, verdict>>
       \/ /\ dirFiles' = RemoveFile(dirFiles, CodeFilename)
          /\ output' = IF cmdOutput = <<>> THEN output
                       ELSE Append(output, cmdOutput)
          /\ i' = i + 1
          /\ beforeOp' = ILLEGAL
          /\ afterOp' = ILLEGAL
          /\ cmdErr' = "NotRun"
          /\ cmdOutput' = <<>>
          /\ verdict' = "None"
          /\ pc' = IF i < Len(nodeArray) THEN "mutate" ELSE "chdirback"
          /\ UNCHANGED panicValue
    /\ UNCHANGED <<runs, content, nodes, astFile, nodeArray, dirExists, cwd>>

\* runTest: os.Remove(filename), checked, and the return of output, which
\* doWork appends to its report before the loop goes on.
RunTestRemove ==
    /\ pc = "remove"
    /\ \/ /\ Panic("remove code file")
          /\ UNCHANGED <<dirFiles, output, i, beforeOp, afterOp, cmdErr,
                         cmdOutput, verdict>>
       \/ /\ dirFiles' = RemoveFile(dirFiles, CodeFilename)
          /\ output' = Append(output, cmdOutput)
          /\ i' = i + 1
          /\ beforeOp' = ILLEGAL
          /\ afterOp' = ILLEGAL
          /\ cmdErr' = "NotRun"
          /\ cmdOutput' = <<>>
          /\ verdict' = "None"
          /\ pc' = IF i < Len(nodeArray) THEN "mutate" ELSE "chdirback"
          /\ UNCHANGED panicValue
    /\ UNCHANGED <<runs, content, nodes, astFile, nodeArray, dirExists, cwd>>

\* os.Chdir("../mutest"), checked.
DoWorkChdirBack ==
    /\ pc = "chdirback"
    /\ \/ /\ Panic("chdir ../mutest")
          /\ UNCHANGED cwd
       \/ /\ cwd' = "mutest"
          /\ pc' = "removeall"
          /\ UNCHANGED panicValue
    /\ UNCHANGED <<runs, content, nodes, astFile, nodeArray, output, i,
                   beforeOp, afterOp, cmdErr, cmdOutput, verdict, dirExists,
                   dirFiles>>

\* os.RemoveAll(genPath), checked.
DoWorkRemoveAll ==
    /\ pc = "removeall"
    /\ \/ /\ Panic("remove directory")
          /\ UNCHANGED <<dirExists, dirFiles>>
       \/ /\ dirExists' = FALSE
          /\ dirFiles' = NoFiles
          /\ pc' = "return"
          /\ UNCHANGED panicValue
    /\ UNCHANGED <<runs, content, nodes, astFile, nodeArray, output, i,
                   beforeOp, afterOp, cmdErr, cmdOutput, verdict, cwd>>

\* The return of doWork without the reset of the candidate list.
DoWorkReturnKeepList ==
    /\ pc = "return"
    /\ content' = Nil
    /\ nodes' = <<>>
    /\ astFile' = 0
    /\ i' = 0
    /\ pc' = "returned"
    /\ UNCHANGED <<runs, nodeArray, output, beforeOp, afterOp, cmdErr,
                   cmdOutput, verdict, dirExists, dirFiles, cwd, panicValue>>

\* nodeArray = make([]ast.Node, 0); return output.
DoWorkReturn ==
    /\ pc = "return"
    /\ nodeArray' = <<>>
    /\ content' = Nil
    /\ nodes' = <<>>
    /\ astFile' = 0
    /\ i' = 0
    /\ pc' = "returned"
    /\ UNCHANGED <<runs, output, beforeOp, afterOp, cmdErr, cmdOutput, verdict,
                   dirExists, dirFiles, cwd, panicValue>>

\* The caller drops the report (main), and may call doWork again.
CallerDrop ==
    /\ pc = "returned"
    /\ output' = <<>>
    /\ pc' = "idle"
    /\ UNCHANGED <<runs, content, nodes, astFile, nodeArray, i, beforeOp,
                   afterOp, cmdErr, cmdOutput, verdict, dirExists, dirFiles,
                   cwd, panicValue>>

RunSteps ==
    \/ DoWorkWalk
    \/ DoWorkMkdir
    \/ DoWorkCopyTest
    \/ DoWorkChdir
    \/ RunTestMutate
    \/ RunTestCreate
    \/ RunTestFprint
    \/ RunTestUnmutate
    \/ RunTestRemove
    \/ DoWorkChdirBack
    \/ DoWorkRemoveAll
    \/ DoWorkReturn
    \/ CallerDrop

Next ==
    \/ DoWorkRead(Sources)
    \/ RunTestExec(RunResults)
    \/ RunSteps

Spec == Init /\ [][Next]_vars

\* Runs over code files of one candidate, with every harness result.
NextClassify ==
    \/ DoWorkRead(ClassifySources)
    \/ RunTestExec(AllResults)
    \/ RunSteps

SpecClassify == Init /\ [][NextClassify]_vars

---------------------------------------------------------------------------
(* Notions the properties are stated with.                                 *)

\* The candidate on trial, and the tree as the parser built it.
Candidate == nodeArray[i]
Parsed == ParseFile(content)

\* The swap table of the mutation operator, as pairs (operator, partner).
SwapTable ==
    { <<LAND, LOR>>, <<LOR, LAND>>, <<EQL, NEQ>>, <<NEQ, EQL>>,
      <<GEQ, LSS>>, <<LSS, GEQ>>, <<LEQ, GTR>>, <<GTR, LEQ>> }
TableOps == {p[1] : p \in SwapTable}
Partner(op) == (CHOOSE p \in SwapTable : p[1] = op)[2]

Logical(h, n) == h[n].kind = "BinaryExpr" /\ h[n].op \in {LAND, LOR}

\* The nodes of the original tree that differ in heap h.
MutatedSites(h) ==
    {n \in 1..Len(Parsed.h) : h[n] # Parsed.h[n]}

\* The final non-empty line of a text: its last maximal run of characters
\* other than the line break (empty when there is none).
FinalNonEmptyLine(text) ==
    LET at == {k \in 1..Len(text) : text[k] # NL} IN
    IF at = {} THEN <<>>
    ELSE LET last == CHOOSE k \in at : \A m \in at : m <= k
             first == CHOOSE k \in 1..last :
                          /\ \A m \in k..last : text[m] # NL
                          /\ k = 1 \/ text[k - 1] = NL
         IN  SubSeq(text, first, last)
Marked(text) == HasPrefix(FinalNonEmptyLine(text), FAIL)

RECURSIVE ReachedFrom(_, _)
\* Node n, and what is reached from it through operands of && and || only.
ReachedFrom(h, n) ==
    {n} \cup (IF Logical(h, n)
              THEN ReachedFrom(h, h[n].X) \cup ReachedFrom(h, h[n].Y)
              ELSE {})

\* The condition expressions of the loop and branch statements of heap h,
\* and what is reached from them through operands of && and ||.
ConditionSites(h) ==
    UNION {ReachedFrom(h, h[s].X) :
              s \in {n \in 1..Len(h) : h[n].kind \in {"ForStmt", "IfStmt"}
                                        /\ h[n].X # 0}}

---------------------------------------------------------------------------
(* The properties.                                                         *)

\* C1: Mutate then Unmutate on a candidate of the scan, on which Mutate does
\* not panic, leaves the text of the tree as it was before Mutate.
C1_InverseLaw ==
    (pc = "mutate" /\ ~Mutate(nodes, Candidate).panicked) =>
        Fprint(Unmutate(Mutate(nodes, Candidate).h, Candidate).h, astFile)
            = Fprint(nodes, astFile)

\* C2: before a trial begins and after it ends the tree is the tree as
\* parsed, and while the code file is written and the harness runs the tree
\* differs from it at the candidate on trial and nowhere else.
C2_OneMutatedSite ==
    /\ pc \in {"mutate", "chdirback", "removeall", "return"} =>
          nodes = Parsed.h
    /\ pc \in {"fprint", "exec"} => MutatedSites(nodes) = {Candidate}

\* C3: an exit status of 0 is classified Survived whatever the output, and
\* a non-zero exit status is classified Killed whenever the final non-empty
\* line of the output begins with FAIL.
C3_ClassificationMapping ==
    /\ cmdErr = "nil" => verdict = "Survived"
    /\ cmdErr = "ExitError" /\ Marked(cmdOutput) => verdict = "Killed"

\* C4: a non-zero exit status whose output's final non-empty line does not
\* begin with FAIL is classified Errored.
C4_UnmarkedFailureErrored ==
    cmdErr = "ExitError" /\ ~Marked(cmdOutput) => verdict = "Errored"

\* C5: Mutate on a binary candidate with an operator of the swap table sets
\* the operator to its partner and returns (old, new); with any other
\* operator it panics with the operator and leaves the tree unchanged.
C5_OperatorClosure ==
    [][(pc = "mutate" /\ nodes[Candidate].kind = "BinaryExpr") =>
         LET op == nodes[Candidate].op IN
         IF op \in TableOps
         THEN /\ pc' = "create"
              /\ nodes' = [nodes EXCEPT ![Candidate].op = Partner(op)]
              /\ beforeOp' = op
              /\ afterOp' = Partner(op)
         ELSE /\ pc' = "panicked"
              /\ panicValue' = op
              /\ nodes' = nodes]_vars

C5_Witness ==
    /\ pc = "create"
    /\ nodes[Candidate].kind = "BinaryExpr"
    /\ beforeOp = GEQ
    /\ afterOp = LSS
    /\ nodes[Candidate].op = LSS

\* C6: no node is twice in the candidate list.
C6_NoDuplicates ==
    \A j, k \in 1..Len(nodeArray) : j # k => nodeArray[j] # nodeArray[k]

\* C7: the scan of a loop or a branch whose condition is  a && b || c
\* yields the candidates a, b, a && b, c and the whole condition, in this
\* order and nothing else.
C7_DiscoveryOrder ==
    (pc = "mkdir" /\ content \in {SrcFile(<<For(Fixture, <<>>)>>),
                                  SrcFile(<<If(Fixture, <<>>, Nil)>>)}) =>
        LET full == nodes[nodes[astFile].kids[1]].X
            ab == nodes[full].X
        IN  nodeArray = <<nodes[ab].X, nodes[ab].Y, ab, nodes[full].Y, full>>

\* C8: every candidate is the condition of a loop or branch statement or is
\* reached from one through operands of && and || only.
C8_CandidatesInConditions ==
    \A k \in 1..Len(nodeArray) : nodeArray[k] \in ConditionSites(nodes)

C8_Witness ==
    /\ pc = "mutate"
    /\ content = SrcFile(<<For(Bin(LAND, cmpA,
                                   Bin(LSS, Bin(ADD, idX, idY), Un(SUB, idX))),
                               <<>>)>>)
    /\ Len(nodeArray) = 3

\* C9: every binary candidate carries an operator of the swap table, and
\* Mutate never panics with an operator.
C9_BinaryCandidatesSupported ==
    /\ \A k \in 1..Len(nodeArray) :
          nodes[nodeArray[k]].kind = "BinaryExpr" =>
              nodes[nodeArray[k]].op \in TableOps
    /\ pc = "panicked" => panicValue \notin {ADD, AND, SUB, NOT}

\* C10: once the harness has returned, whatever its result, the trial goes
\* on to Revert and Clean up: only a failing removal of the code file stops
\* the process then.
C10_HarnessResultNeverAborts ==
    cmdErr # "NotRun" =>
        \/ pc \in {"unmutate", "remove"}
        \/ pc = "panicked" /\ panicValue = "remove code file"

\* The positions of a trial (runTest), in the order of its steps.
TrialSteps == <<"mutate", "create", "fprint", "exec", "unmutate", "remove">>
TrialPcs == {TrialSteps[k] : k \in 1..Len(TrialSteps)}

\* C11: the report grows by exactly the captured output of each trial, as
\* its entry number i for the trial of candidate i, nothing else changes it
\* during the run, and the report doWork returns has one entry for each
\* entry of the candidate list.
C11_ReportPerCandidate ==
    [][/\ (pc = "remove" /\ pc' # "panicked") =>
             /\ output' = Append(output, cmdOutput)
             /\ Len(output') = i
       /\ pc \in (TrialPcs \ {"remove"}) \cup {"chdirback", "removeall"} =>
             output' = output
       /\ pc = "return" =>
             /\ pc' = "returned"
             /\ output' = output
             /\ Len(output') = Len(nodeArray)]_vars

C11_Witness ==
    /\ pc = "returned"
    /\ Len(output) = 5
    /\ output[1] # output[2]
    /\ output[3] = <<>>

\* C12: when a trial after the first begins, and when the loop is over, the
\* code file of the trial before is not in the workspace; at Execute the code
\* file holds the text of the tree of the trial under way; and when doWork
\* has completed the workspace directory does not exist.
C12_WorkspaceIsolation ==
    /\ (pc \in {"mutate", "create", "chdirback"} /\ i > 1) =>
          CodeFilename \notin DOMAIN dirFiles
    /\ pc = "exec" =>
          /\ CodeFilename \in DOMAIN dirFiles
          /\ dirFiles[CodeFilename] = Fprint(nodes, astFile)
    /\ pc \in {"return", "returned"} => ~dirExists /\ dirFiles = NoFiles

C12_Witness ==
    /\ pc = "exec"
    /\ i = 2
    /\ dirFiles[CodeFilename] # Fprint(Parsed.h, Parsed.id)

\* C13: at the Execute step of the first trial of a run the workspace holds
\* the code file of the run and the copy of its test file and nothing else.
C13_FreshWorkspace ==
    (pc = "exec" /\ i = 1) => DOMAIN dirFiles = {CodeFilename, TestFilename}

\* The panics of doWork before its loop: the faults of the setup.
SetupFaults ==
    {"test file unreadable", "code file unreadable", "parse error", "getwd",
     "create test file", "chdir"}

\* C14: when a setup fault has stopped the process, no node of the tree has
\* been mutated, the harness has not run, no trial has begun and no report
\* entry exists; and a trial is under way only when the workspace directory
\* and the copy of the test file are there.
C14_SetupFaultAborts ==
    /\ (pc = "panicked" /\ panicValue \in SetupFaults) =>
          /\ nodes = (IF content = Nil THEN <<>> ELSE Parsed.h)
          /\ cmdErr = "NotRun"
          /\ i = 0
          /\ output = <<>>
          /\ CodeFilename \notin DOMAIN dirFiles
    /\ pc \in TrialPcs =>
          /\ content # Nil
          /\ dirExists
          /\ TestFilename \in DOMAIN dirFiles
          /\ dirFiles[TestFilename] = Dat
          /\ cwd = "gen"

C14_Witness ==
    /\ pc = "panicked"
    /\ panicValue = "create test file"
    /\ ~dirExists
    /\ Len(nodeArray) = 5

C16_EmptyScanNoTrials ==
    [][(nodeArray = <<>>
        /\ pc \in {"chdir", "chdirback", "removeall", "return"}) =>
          /\ pc' \notin TrialPcs
          /\ nodes' = nodes \/ pc' = "returned"
          /\ cmdErr' = "NotRun"
          /\ CodeFilename \notin DOMAIN dirFiles'
          /\ output' = <<>>
          /\ pc' = "panicked" =>
                panicValue' \in {"chdir", "chdir ../mutest", "remove directory"}
          /\ pc' = "returned" => ~dirExists']_vars

C16_Witness ==
    /\ pc = "returned"
    /\ output = <<>>
    /\ ~dirExists
    /\ cwd = "mutest"

\* The step that follows each step of a trial when nothing fails.
StepAfter(p) ==
    CASE p = "mutate" -> {"create"}
      [] p = "create" -> {"fprint"}
      [] p = "fprint" -> {"exec"}
      [] p = "exec" -> {"unmutate"}
      [] p = "unmutate" -> {"remove"}
      [] p = "remove" -> {"mutate", "chdirback"}

\* C17: the steps of a trial follow one another in the order Apply,
\* Materialize, Execute and Classify, Revert, Clean up; a trial begins only
\* from the head of the loop or from the Clean up of the trial before; and
\* when a trial begins no node of the tree is mutated and no generated code
\* file exists.
C17_TrialOrder ==
    [][/\ (pc \in TrialPcs /\ pc' # "panicked") => pc' \in StepAfter(pc)
       /\ pc' = "mutate" =>
             /\ pc \in {"chdir", "remove"}
             /\ MutatedSites(nodes') = {}
             /\ CodeFilename \notin DOMAIN dirFiles']_vars

\* C18: Mutate on a unary candidate op(X) does not panic, keeps the node a
\* unary expression with the operator op, makes its operand a new unary
\* expression !(X) over the operand it had, changes no other node, so that
\* the candidate is printed as op, !, and the text of X, and returns op as
\* both tokens.
C18_UnaryMutateWraps ==
    [][(pc = "mutate" /\ nodes[Candidate].kind = "UnaryExpr") =>
         LET c == Candidate
             op == nodes[c].op
             operand == nodes[c].X
         IN  /\ pc' = "create"
             /\ nodes'[c].kind = "UnaryExpr"
             /\ nodes'[c].op = op
             /\ nodes'[c].X \notin 1..Len(nodes)
             /\ nodes'[nodes'[c].X] = Node("UnaryExpr", NOT, operand, 0, <<>>)
             /\ \A n \in 1..Len(nodes) : n # c => nodes'[n] = nodes[n]
             /\ Fprint(nodes', c)
                   = <<op, NOT>> \o FprintPrec(nodes, operand, UnaryPrec)
             /\ beforeOp' = op
             /\ afterOp' = op]_vars

C18_Witness ==
    /\ pc = "create"
    /\ Parsed.h[Candidate].kind = "UnaryExpr"
    /\ beforeOp = SUB
    /\ afterOp = SUB
    /\ Fprint(nodes, Candidate) = <<SUB, NOT, "x">>

\* The positions of a run at which the scan is done and the tree is held.
ScannedPcs ==
    {"mkdir", "copytest", "chdir", "chdirback", "removeall", "return"}
        \cup TrialPcs

InList(n) == \E k \in 1..Len(nodeArray) : nodeArray[k] = n

RECURSIVE Subtree(_, _)
\* Node n of heap h and all nodes below it.
Subtree(h, n) ==
    IF n = 0 THEN {}
    ELSE {n} \cup UNION {Subtree(h, Children(h[n])[k]) :
                            k \in 1..Len(Children(h[n]))}

\* C19: a unary expression that is the condition of an if statement is in
\* the candidate list exactly when its operator is !, one that is the
\* condition of a for statement is in the list whatever its operator, and in
\* both cases no node of its operand is in the list.
C19_UnaryConditions ==
    pc \in ScannedPcs =>
        \A s \in 1..Len(nodes) :
            (/\ nodes[s].kind \in {"ForStmt", "IfStmt"}
             /\ nodes[s].X # 0
             /\ nodes[nodes[s].X].kind = "UnaryExpr") =>
                LET c == nodes[s].X IN
                /\ nodes[s].kind = "IfStmt" => (InList(c) <=> nodes[c].op = NOT)
                /\ nodes[s].kind = "ForStmt" => InList(c)
                /\ \A n \in Subtree(nodes, nodes[c].X) : ~InList(n)

C19_Witness ==
    /\ pc = "mkdir"
    /\ content = SrcFile(<<If(Un(SUB, idX), <<>>, Nil)>>)
    /\ nodeArray = <<>>

\* C20: the candidate list is empty when doWork has returned and when the
\* scan of a run begins; from the end of the scan to the end of the last
\* trial no step changes it; and the candidates on trial are those of the
\* walk of the run's own code file.
C20_ListPerRun ==
    [][/\ pc' = "returned" => nodeArray' = <<>>
       /\ pc \in {"idle", "walk"} => nodeArray = <<>>
       /\ pc \in ScannedPcs \ {"return"} => nodeArray' = nodeArray
       /\ pc \in TrialPcs => nodeArray = Walk(Parsed.h, Parsed.id, <<>>)]_vars

C20_Witness ==
    /\ runs = 2
    /\ pc = "exec"
    /\ i = 3
    /\ Len(nodeArray) = 3

=============================================================================
